---------------------------- MODULE Spec2Model ----------------------------
(***************************************************************************)
(* RedFlag: the log-discovery and enrichment pipeline behind GET /pools    *)
(* and GET /creator/{addr}/pools, and the chunked range fetcher of the     *)
(* debug script.                                                           *)
(*                                                                         *)
(* Two implementations of GET /pools exist in the repository: the "full"   *)
(* one (scoreError, isFirstPoolByCreator; src/unnamed/part_000) and the    *)
(* "simple" one (src/src/app/api/pools/route.ts).  The variable `variant`  *)
(* selects which of the two a behaviour runs.                              *)
(*                                                                         *)
(* JavaScript's null / undefined is the empty sequence, a present value v  *)
(* is <<v>>.                                                               *)
(***************************************************************************)
EXTENDS Integers, Sequences, FiniteSets, TLC

VARIABLES
    variant,    \* "full" (part_000) or "simple" (route.ts)
    endpoint,   \* which route the client calls: "pools" or "creator"
    chain,      \* the chain the providers serve (a scenario of ChainIds)
    now,        \* Date.now()
    cache,      \* the module-level cache entry of the /pools route
    faults,     \* failures of external calls injected so far
    req,        \* the local state of each GET /pools request
    creq,       \* the local state of the GET /creator/{addr}/pools request
    fetcher,    \* the local state of the script's fetchLogsInChunks call
    redFlagToken \* the storage of the RedFlagToken contract and its last call

vars == <<variant, endpoint, chain, now, cache, faults, req, creq, fetcher, redFlagToken>>

(***************************************************************************)
(* Bounds of the model.                                                    *)
(***************************************************************************)
\* failures of external calls (range query, receipt, symbol, block, ethos)
\* in one behaviour; a provider that is down (getBlockNumber throws) and a
\* range query that cannot be sent are not counted
MaxFaults == 1
\* the longest chunk loop of fetchLogsInChunks that is explored
MaxChunks == 5
\* the largest uint256 and the minted supply, scaled down
MaxUint == 5
InitialSupply == 2
\* the longest sequence of calls to the token that is explored
MaxCalls == 3

Null == <<>>
Some(v) == <<v>>
IsNull(x) == Len(x) = 0
Val(x) == x[1]

Absent == "absent"      \* a field the JSON body does not carry

(***************************************************************************)
(* Program constants.                                                      *)
(***************************************************************************)
RPC_ENDPOINTS == <<"llamarpc", "1rpc", "drpc", "alchemy">>
CREATOR_RPC_ENDPOINTS == <<"llamarpc", "1rpc", "drpc">>
creatorTotalRange == 200000
CACHE_TTL == 60000
rangeSize == 2000
smallerChunk == 900
DefaultChunkSize == 5000
totalRange == 100000
LogTargetFull == 25
LogTargetSimple == 20
TopN == 15

LogTarget == IF variant = "full" THEN LogTargetFull ELSE LogTargetSimple

(***************************************************************************)
(* Addresses.  An address string is who it names and how it is cased;      *)
(* toLowerCase keeps the account and lowers the casing.                    *)
(***************************************************************************)
Address(w, l) == [who |-> w, lower |-> l]
ZeroAddress == Address(0, TRUE)

\* a lowering that leaves the casing as it is
toLowerCaseKeepsCase(a) == a

toLowerCase(a) == [a EXCEPT !.lower = TRUE]

(***************************************************************************)
(* The environment: chains the providers can serve.  A log is a PoolLog    *)
(* {args, blockNumber, transactionHash}; args is identified by the log's   *)
(* id.  Each chain lists its logs in chain order (ascending block).        *)
(***************************************************************************)
Log(i, b, t) == [id |-> i, blockNumber |-> b, transactionHash |-> t]

ChainIds == {"empty", "lone", "pair", "small", "split", "many", "young"}

\* 27 events in three 2000-block ranges below head 250000: 14, 12 and 1
ManyLogs ==
    [k \in 1..27 |->
        Log(k, IF k = 1 THEN 245000 ELSE IF k <= 13 THEN 247000 + k ELSE 249000 + k,
            Some(k))]

\* eth_blockNumber; "grown" is the "pair" chain one block later
ChainHead(c) ==
    IF c = "young" THEN 3000 ELSE IF c = "grown" THEN 250001 ELSE 250000

ChainLogs(c) ==
    CASE c = "empty" -> <<>>
      [] c = "lone"  -> << Log(1, 249900, Some(7)) >>
      [] c = "pair"  -> << Log(2, 249500, Null), Log(1, 249900, Some(7)) >>
      [] c = "small" -> << Log(5, 120500, Some(5)),
                           Log(4, 247400, Null),
                           Log(3, 247500, Some(3)),
                           Log(2, 249000, Some(2)),
                           Log(1, 249990, Some(1)) >>
      [] c = "split" -> << Log(4, 246100, Some(4)),
                           Log(3, 247500, Some(3)),
                           Log(2, 249000, Some(2)),
                           Log(1, 249990, Some(1)) >>
      [] c = "many"  -> ManyLogs
      [] c = "young" -> << Log(2, 1000, Some(8)), Log(1, 2500, Some(7)) >>
      [] c = "grown" -> << Log(2, 249500, Null), Log(1, 249900, Some(7)),
                           Log(3, 250001, Some(9)) >>

\* The logs provider p (an index into the endpoint list) has indexed: on the
\* "split" chain the first provider has indexed nothing and the second
\* misses the oldest log; everywhere else every provider has the whole chain.
ProviderLogs(c, p) ==
    IF c = "split"
    THEN (CASE p = 1 -> <<>>
            [] p = 2 -> Tail(ChainLogs(c))
            [] OTHER -> ChainLogs(c))
    ELSE ChainLogs(c)

\* receipt.from of a transaction, as the provider returns it
TxFrom(c, t) ==
    CASE c \in {"small", "split"} ->
                        (CASE t = 1 -> Address(7, FALSE)
                           [] t = 2 -> Address(7, TRUE)
                           [] t = 5 -> Address(7, TRUE)
                           [] OTHER -> Address(8, TRUE))
      [] c = "many"  -> Address(IF t = 5 THEN 20 ELSE t, TRUE)
      [] OTHER       -> Address(t, TRUE)

\* what the reputation service has on file for an account
ScoreOnFile(a) ==
    IF a.who = 0 \/ a.who % 3 = 2 THEN Null ELSE Some(1000 + a.who)

\* instants at which Date.now() is read
Times == {0, 59999, 60000, 60001}

\* how many GET /pools requests the client issues against a chain
Workload(c) == IF c \in {"empty", "lone", "pair"} THEN 2 ELSE 1

Reqs == {1, 2}

(***************************************************************************)
(* Pure helpers.                                                           *)
(***************************************************************************)
RECURSIVE Insert(_, _)
\* x placed in a sequence sorted by blockNumber descending, after its ties
Insert(s, x) ==
    IF s = <<>> THEN <<x>>
    ELSE IF Head(s).blockNumber >= x.blockNumber
         THEN <<Head(s)>> \o Insert(Tail(s), x)
         ELSE <<x>> \o s

\* a sort that leaves the logs in the order of the scan
SortKeepsOrder(s) == s

RECURSIVE SortDesc(_)
\* logs.sort((a, b) => Number(b.blockNumber) - Number(a.blockNumber)): stable
SortDesc(s) ==
    IF s = <<>> THEN <<>>
    ELSE Insert(SortDesc(SubSeq(s, 1, Len(s) - 1)), s[Len(s)])

\* a slice that keeps the last n logs instead of the first n
SliceTail(s, n) == SubSeq(s, IF Len(s) < n THEN 1 ELSE Len(s) - n + 1, Len(s))

\* logs.slice(0, n)
Slice(s, n) == SubSeq(s, 1, IF Len(s) < n THEN Len(s) ELSE n)

\* what an honest provider answers to getLogs({fromBlock, toBlock})
LogsInRange(c, p, from, to) ==
    SelectSeq(ProviderLogs(c, p), LAMBDA l : l.blockNumber >= from /\ l.blockNumber <= to)

\* Map.get(k) || 0
MapGet(m, k) == IF k \in DOMAIN m THEN m[k] ELSE 0
\* Map.set(k, v)
MapSet(m, k, v) == [x \in DOMAIN m \cup {k} |-> IF x = k THEN v ELSE m[x]]
EmptyMap == [x \in {} |-> 0]

(***************************************************************************)
(* The state of one GET /pools request.                                    *)
(***************************************************************************)
IdleReq ==
    [ pc |-> "idle",
      p |-> 0,                  \* index into RPC_ENDPOINTS of `client`
      threw |-> {},             \* the providers whose getBlockNumber threw
      currentBlock |-> 0,       \* kept once the scan ended: the head it read
      offset |-> 0,
      allLogs |-> <<>>,
      logs |-> <<>>,            \* result.logs once fetchLogsWithFallback returned
      recentLogs |-> <<>>,
      creators |-> <<>>,
      creatorPoolCount |-> EmptyMap,
      i |-> 0,                  \* loop index of the loop pc is in
      sym |-> <<>>,             \* [token0Symbol, token1Symbol] of the current log
      deployer |-> Null,        \* simple variant: sender of the current log
      timestamp |-> Null,       \* block.timestamp of the current log
      timer |-> "none",         \* the abort timer of getEthosScore
      poolsData |-> <<>>,
      resp |-> Null ]

\* the state of the GET /creator/{addr}/pools request
IdleCreatorReq ==
    [ pc |-> "idle",
      targetAddress |-> Null,
      p |-> 0,                  \* index into CREATOR_RPC_ENDPOINTS of `client`
      currentBlock |-> 0,
      offset |-> 0,
      allLogs |-> <<>>,
      i |-> 0,                  \* index into allLogs of the filter loop
      sym |-> <<>>,
      creatorPools |-> <<>>,
      resp |-> Null ]

\* the addresses that call the RedFlagToken contract, and the amounts they pass
Accounts == {"deployer", "alice", "bob"}
Amounts == {0, 1, InitialSupply, MaxUint}

\* what the last call was and how it ended
Call(op, ok, owner, spender, to, value) ==
    [op |-> op, ok |-> ok, owner |-> owner, spender |-> spender, to |-> to, value |-> value]

\* the storage after the constructor ran
Deployed ==
    [ totalSupply |-> InitialSupply,
      balanceOf |-> [a \in Accounts |-> IF a = "deployer" THEN InitialSupply ELSE 0],
      allowance |-> [a \in Accounts |-> [b \in Accounts |-> 0]],
      calls |-> 0,
      last |-> Call("constructor", TRUE, "deployer", "deployer", "deployer", InitialSupply) ]

\* the state of one call of fetchLogsInChunks (the README's debug script)
IdleFetcher ==
    [ pc |-> "off",
      fromBlock |-> 0,
      toBlock |-> 0,
      chunkSize |-> 0,
      start |-> 0,              \* loop variable of the chunk loop
      s |-> 0,                  \* loop variable of the sub-chunk loop
      allLogs |-> <<>>,
      queries |-> <<>> ]        \* the getLogs calls made so far, and how each ended

Init ==
    /\ endpoint \in {"pools", "creator"}
    /\ variant \in (IF endpoint = "pools" THEN {"full", "simple"} ELSE {"full"})
    /\ chain \in ChainIds
    /\ now = 0
    /\ cache = Null
    /\ faults = 0
    /\ req = [r \in Reqs |-> IdleReq]
    /\ creq = IdleCreatorReq
    /\ fetcher = IdleFetcher
    /\ redFlagToken = Deployed

(***************************************************************************)
(* The synchronous code of GET /pools between two awaits, as functions of  *)
(* the request's state rr.  pc names the await the request is parked at;   *)
(* "store" is the code from cache.set to the response, run by Settle.      *)
(***************************************************************************)
Response(st, ps, upd, c, e) ==
    [status |-> st, pools |-> ps, lastUpdated |-> upd, cached |-> c, error |-> e]

\* the body returned when fetchLogsWithFallback returned null
NoDataFull == Response(200, <<>>, Some(now), Some(FALSE), Absent)
NoDataSimple == Response(200, <<>>, Some(now), Null, Absent)

NoData(rr) ==
    [rr EXCEPT !.pc = "done",
               !.resp = Some(IF variant = "full" THEN NoDataFull ELSE NoDataSimple)]

NextProviderGivesUp(rr) ==
    NoData([rr EXCEPT !.p = 0, !.currentBlock = 0, !.offset = 0, !.allLogs = <<>>])

\* `continue` of the provider loop, or `return null` after the last provider
NextProvider(rr) ==
    IF rr.p < Len(RPC_ENDPOINTS)
    THEN [rr EXCEPT !.p = @ + 1, !.pc = "blockNumber", !.currentBlock = 0,
                    !.offset = 0, !.allLogs = <<>>]
    ELSE NoData([rr EXCEPT !.p = 0, !.currentBlock = 0, !.offset = 0, !.allLogs = <<>>])

\* the per-log loop of GET: the next log to enrich, or the end of the loop
EnrichFrom(rr) ==
    IF rr.i > Len(rr.recentLogs)
    THEN [rr EXCEPT !.pc = "store"]
    ELSE [rr EXCEPT !.pc = "symbols"]

RECURSIVE CountFrom(_)
\* "Count occurrences in the full logs window": logs without a hash are skipped
CountFrom(rr) ==
    IF rr.i > Len(rr.logs)
    THEN EnrichFrom([rr EXCEPT !.i = 1])
    ELSE IF IsNull(rr.logs[rr.i].transactionHash)
         THEN CountFrom([rr EXCEPT !.i = @ + 1])
         ELSE [rr EXCEPT !.pc = "count"]

RECURSIVE FirstPassFrom(_)
\* "First pass: get all creators": a log without a hash maps to null
FirstPassFrom(rr) ==
    IF rr.i > Len(rr.recentLogs)
    THEN CountFrom([rr EXCEPT !.i = 1])
    ELSE IF IsNull(rr.recentLogs[rr.i].transactionHash)
         THEN FirstPassFrom([rr EXCEPT !.creators = Append(@, Null), !.i = @ + 1])
         ELSE [rr EXCEPT !.pc = "senders"]

\* a GET that enriches through the client of the first provider
FetchedWithFirstClient(rr) ==
    LET sorted == SortDesc(rr.allLogs)
        r1 == [rr EXCEPT !.logs = sorted, !.recentLogs = Slice(sorted, TopN),
                         !.allLogs = <<>>, !.offset = 0, !.i = 1,
                         !.p = 1]
    IN IF variant = "full" THEN FirstPassFrom(r1) ELSE EnrichFrom(r1)

\* GET after fetchLogsWithFallback returned { logs, client }: sort, slice
Fetched(rr) ==
    LET sorted == SortDesc(rr.allLogs)
        r1 == [rr EXCEPT !.logs = sorted, !.recentLogs = Slice(sorted, TopN),
                         !.allLogs = <<>>, !.offset = 0, !.i = 1]
    IN IF variant = "full" THEN FirstPassFrom(r1) ELSE EnrichFrom(r1)

\* a range loop whose provider is abandoned whatever it gathered
AdvanceScanAbandons(rr) ==
    LET r1 == [rr EXCEPT !.offset = @ + rangeSize]
    IN IF r1.offset < totalRange /\ Len(r1.allLogs) < LogTarget
       THEN r1
       ELSE NextProvider(r1)

\* the end of one iteration of the range loop of fetchLogsWithFallback
AdvanceScan(rr) ==
    LET r1 == [rr EXCEPT !.offset = @ + rangeSize]
    IN IF r1.offset < totalRange /\ Len(r1.allLogs) < LogTarget
       THEN r1
       ELSE IF Len(r1.allLogs) > 0 THEN Fetched(r1) ELSE NextProvider(r1)

\* a scan whose first range ends one block below the head
QueryToBelowHead(rr) == rr.currentBlock - rr.offset - 1

\* the range of the query the request is parked at
QueryTo(rr) == rr.currentBlock - rr.offset
\* a range that reaches one block further down
QueryFromRawOneMore(rr) == QueryTo(rr) - rangeSize

QueryFromRaw(rr) == QueryTo(rr) - rangeSize + 1
\* the lower bound sent as computed
QueryFromUnclamped(rr) == QueryFromRaw(rr)

QueryFrom(rr) == IF QueryFromRaw(rr) > 0 THEN QueryFromRaw(rr) ELSE 1

\* an entry that keeps the timestamp of the entry it replaces
CacheEntryKeepsTimestamp(rr) ==
    [data |-> rr.poolsData,
     timestamp |-> IF IsNull(cache) THEN now ELSE Val(cache).timestamp]

\* { data: poolsData, timestamp: Date.now() }
CacheEntry(rr) == [data |-> rr.poolsData, timestamp |-> now]

\* a put that keeps the entry the cache already holds
SettleFirstWriterWins(r, rr) ==
    IF rr.pc = "store"
    THEN /\ cache' = IF IsNull(cache)
                     THEN Some(CacheEntry(rr))
                     ELSE cache
         /\ req' = [req EXCEPT ![r] =
                [rr EXCEPT !.pc = "done", !.i = 0, !.poolsData = <<>>,
                           !.resp = Some(Response(200, rr.poolsData, Some(now),
                                                  Some(FALSE), Absent))]]
    ELSE /\ cache' = cache
         /\ req' = [req EXCEPT ![r] = rr]

\* cache.set(...) and the response of a scan that gathered logs
Settle(r, rr) ==
    IF rr.pc = "store"
    THEN /\ cache' = Some(CacheEntry(rr))
         /\ req' = [req EXCEPT ![r] =
                [rr EXCEPT !.pc = "done", !.i = 0, !.poolsData = <<>>,
                           !.resp = Some(Response(200, rr.poolsData, Some(now),
                                                  Some(FALSE), Absent))]]
    ELSE /\ cache' = cache
         /\ req' = [req EXCEPT ![r] = rr]

\* the environment may still make n external calls fail
CanFail(n) == faults + n <= MaxFaults
Cost(ok) == IF ok THEN 0 ELSE 1

(***************************************************************************)
(* GET /pools: the cache check.                                            *)
(***************************************************************************)
CacheHitInclusive == ~IsNull(cache) /\ now - Val(cache).timestamp <= CACHE_TTL

CacheHit == ~IsNull(cache) /\ now - Val(cache).timestamp < CACHE_TTL

\* a GET whose cache hit renews the timestamp of the entry
StartRenewsEntry(r) ==
    /\ endpoint = "pools"
    /\ req[r].pc = "idle"
    /\ r = 1 \/ (req[1].pc = "done" /\ Workload(chain) >= 2)
    /\ req' = [req EXCEPT ![r] =
            IF CacheHit
            THEN [IdleReq EXCEPT !.pc = "done",
                     !.resp = Some(Response(200, Val(cache).data,
                                            Some(Val(cache).timestamp), Some(TRUE), Absent))]
            ELSE [IdleReq EXCEPT !.pc = "blockNumber", !.p = 1]]
    /\ cache' = IF CacheHit THEN Some([Val(cache) EXCEPT !.timestamp = now]) ELSE cache
    /\ UNCHANGED <<redFlagToken, fetcher, variant, endpoint, chain, now, faults, creq>>

\* GET up to the cache check: a hit answers, a miss starts the scan
Start(r) ==
    /\ endpoint = "pools"
    /\ req[r].pc = "idle"
    /\ r = 1 \/ (req[1].pc = "done" /\ Workload(chain) >= 2)
    /\ req' = [req EXCEPT ![r] =
            IF CacheHit
            THEN [IdleReq EXCEPT !.pc = "done",
                     !.resp = Some(Response(200, Val(cache).data,
                                            Some(Val(cache).timestamp), Some(TRUE), Absent))]
            ELSE [IdleReq EXCEPT !.pc = "blockNumber", !.p = 1]]
    /\ UNCHANGED <<redFlagToken, fetcher, variant, endpoint, chain, now, cache, faults, creq>>

\* time passes; it is observable only once a cache entry exists
Tick ==
    /\ ~IsNull(cache)
    /\ \E t \in Times : t > now /\ now' = t
    /\ UNCHANGED <<redFlagToken, fetcher, variant, endpoint, chain, cache, faults, req, creq>>

(***************************************************************************)
(* fetchLogsWithFallback.                                                  *)
(***************************************************************************)
GetBlockNumberReturns(r) ==
    /\ req[r].pc = "blockNumber"
    /\ req' = [req EXCEPT ![r] = [@ EXCEPT !.pc = "getLogs",
                    !.currentBlock = ChainHead(chain), !.offset = 0, !.allLogs = <<>>]]
    /\ UNCHANGED <<redFlagToken, fetcher, variant, endpoint, chain, now, cache, faults, creq>>

GetBlockNumberThrows(r) ==
    /\ req[r].pc = "blockNumber"
    /\ Settle(r, NextProvider([req[r] EXCEPT !.threw = @ \cup {req[r].p}]))
    /\ UNCHANGED <<redFlagToken, fetcher, variant, endpoint, chain, now, faults, creq>>

\* getLogs answers; a range with a negative toBlock is never sent
GetLogsReturns(r) ==
    /\ req[r].pc = "getLogs"
    /\ QueryTo(req[r]) >= 0
    /\ LET logs == LogsInRange(chain, req[r].p, QueryFrom(req[r]), QueryTo(req[r]))
       IN Settle(r, AdvanceScan([req[r] EXCEPT !.allLogs = @ \o logs]))
    /\ UNCHANGED <<redFlagToken, fetcher, variant, endpoint, chain, now, faults, creq>>

\* getLogs throws: the inner catch continues with the next range
GetLogsThrows(r) ==
    /\ req[r].pc = "getLogs"
    /\ \/ QueryTo(req[r]) < 0 /\ faults' = faults
       \/ QueryTo(req[r]) >= 0 /\ CanFail(1) /\ faults' = faults + 1
    /\ Settle(r, AdvanceScan(req[r]))
    /\ UNCHANGED <<redFlagToken, fetcher, variant, endpoint, chain, now, creq>>

(***************************************************************************)
(* The lookups of the enrichment.                                          *)
(***************************************************************************)
\* getTransactionSender: receipt.from, or the zero address when the call throws
getTransactionSender(h, ok) ==
    IF ok THEN TxFrom(chain, Val(h)) ELSE ZeroAddress

\* getTokenSymbol: the symbol, or address.slice(0, 6) + "..." when the read throws
getTokenSymbol(token, ok) ==
    IF ok THEN [kind |-> "symbol", of |-> token] ELSE [kind |-> "prefix", of |-> token]

\* block.timestamp of a block
BlockTimestamp(b) == 1700000000 + 2 * b

\* a lookup that reports a failure next to the score on file
getEthosScoreKeepsScore(outcome, a) ==
    [score |-> Some(1000 + a.who), error |-> IF outcome = "score" THEN Null ELSE Some(outcome)]

\* a lookup whose failure is reported without an error
getEthosScoreSilent(outcome, a) ==
    IF outcome = "score"
    THEN [score |-> ScoreOnFile(a), error |-> Null]
    ELSE [score |-> Null, error |-> Null]

\* what getEthosScore returns (full variant), by how the lookup ended:
\* "score" (2xx, body read), or a failure "status", "network", "aborted", "body"
getEthosScoreFull(outcome, a) ==
    IF outcome = "score"
    THEN [score |-> ScoreOnFile(a), error |-> Null]
    ELSE [score |-> Null, error |-> Some(outcome)]

\* what getEthosScore returns (simple variant)
getEthosScoreSimple(outcome, a) ==
    IF outcome = "score" THEN ScoreOnFile(a) ELSE Null

\* `creators[i] || "0x000..."` (full), `deployer` (simple)
Creator(rr) ==
    IF variant = "full"
    THEN (IF IsNull(rr.creators[rr.i]) THEN ZeroAddress ELSE Val(rr.creators[rr.i]))
    ELSE Val(rr.deployer)

isFirstPool(rr) == MapGet(rr.creatorPoolCount, toLowerCase(Creator(rr))) = 1

PoolDataFull(rr, res) ==
    LET log == rr.recentLogs[rr.i]
    IN [ pool |-> log.id,
         token0Symbol |-> rr.sym[1],
         token1Symbol |-> rr.sym[2],
         creator |-> Creator(rr),
         creatorScore |-> res.score,
         scoreError |-> res.error,
         blockNumber |-> log.blockNumber,
         timestamp |-> Val(rr.timestamp),
         txHash |-> log.transactionHash,
         isFirstPoolByCreator |-> isFirstPool(rr) ]

PoolDataSimple(rr, score) ==
    LET log == rr.recentLogs[rr.i]
    IN [ pool |-> log.id,
         token0Symbol |-> rr.sym[1],
         token1Symbol |-> rr.sym[2],
         deployer |-> Creator(rr),
         timestamp |-> Val(rr.timestamp),
         ethosScore |-> score,
         blockNumber |-> log.blockNumber,
         transactionHash |-> log.transactionHash ]

\* the next iteration of the per-log loop
NextLog(rr) ==
    EnrichFrom([rr EXCEPT !.i = @ + 1, !.sym = <<>>, !.deployer = Null,
                          !.timestamp = Null, !.timer = "none"])

\* poolsData.push({...}) once getEthosScore returned
PushPool(rr, outcome) ==
    LET pd == IF variant = "full"
              THEN PoolDataFull(rr, getEthosScoreFull(outcome, Creator(rr)))
              ELSE PoolDataSimple(rr, getEthosScoreSimple(outcome, Creator(rr)))
    IN NextLog([rr EXCEPT !.poolsData = Append(@, pd)])

\* a per-log failure that escapes to the handler's outer catch
PoolProcessRethrows(rr) ==
    [rr EXCEPT !.pc = "done",
               !.resp = Some(Response(500, <<>>, Some(now), Null, "Failed to fetch pools"))]

\* `catch (err) { ...; continue; }` of the per-log loop
PoolProcessFailed(rr) == NextLog(rr)

(***************************************************************************)
(* GET /pools: the enrichment.                                             *)
(***************************************************************************)
\* full variant, first pass: one sender lookup of Promise.all settles
SenderSettles(r) ==
    /\ req[r].pc = "senders"
    /\ \E ok \in BOOLEAN :
        /\ CanFail(Cost(ok))
        /\ faults' = faults + Cost(ok)
        /\ LET rr == req[r]
               a == getTransactionSender(rr.recentLogs[rr.i].transactionHash, ok)
           IN Settle(r, FirstPassFrom([rr EXCEPT !.creators = Append(@, Some(a)),
                                                 !.i = @ + 1]))
    /\ UNCHANGED <<redFlagToken, fetcher, variant, endpoint, chain, now, creq>>

\* full variant, count pass: the sender lookup of logs[i] settles
CountSettles(r) ==
    /\ req[r].pc = "count"
    /\ \E ok \in BOOLEAN :
        /\ CanFail(Cost(ok))
        /\ faults' = faults + Cost(ok)
        /\ LET rr == req[r]
               k == toLowerCase(getTransactionSender(rr.logs[rr.i].transactionHash, ok))
           IN Settle(r, CountFrom([rr EXCEPT
                    !.creatorPoolCount = MapSet(@, k, MapGet(@, k) + 1),
                    !.i = @ + 1]))
    /\ UNCHANGED <<redFlagToken, fetcher, variant, endpoint, chain, now, creq>>

\* Promise.all([getTokenSymbol(token0), getTokenSymbol(token1)]) settles
SymbolsSettle(r) ==
    /\ req[r].pc = "symbols"
    /\ \E ok0 \in BOOLEAN, ok1 \in BOOLEAN :
        /\ CanFail(Cost(ok0) + Cost(ok1))
        /\ faults' = faults + Cost(ok0) + Cost(ok1)
        /\ LET rr == req[r]
               log == rr.recentLogs[rr.i]
               r1 == [rr EXCEPT !.sym = << getTokenSymbol(<<log.id, 0>>, ok0),
                                          getTokenSymbol(<<log.id, 1>>, ok1) >>]
           IN req' = [req EXCEPT ![r] =
                IF variant = "full"
                THEN [r1 EXCEPT !.pc = "getBlock"]
                ELSE IF IsNull(log.transactionHash)
                     THEN [r1 EXCEPT !.pc = "getBlock", !.deployer = Some(ZeroAddress)]
                     ELSE [r1 EXCEPT !.pc = "deployer"]]
    /\ UNCHANGED <<redFlagToken, fetcher, variant, endpoint, chain, now, cache, creq>>

\* simple variant: getTransactionSender of the current log settles
DeployerSettles(r) ==
    /\ req[r].pc = "deployer"
    /\ \E ok \in BOOLEAN :
        /\ CanFail(Cost(ok))
        /\ faults' = faults + Cost(ok)
        /\ LET rr == req[r]
               a == getTransactionSender(rr.recentLogs[rr.i].transactionHash, ok)
           IN req' = [req EXCEPT ![r] = [rr EXCEPT !.pc = "getBlock", !.deployer = Some(a)]]
    /\ UNCHANGED <<redFlagToken, fetcher, variant, endpoint, chain, now, cache, creq>>

\* client.getBlock answers; getEthosScore starts (and arms its abort timer)
GetBlockReturns(r) ==
    /\ req[r].pc = "getBlock"
    /\ LET rr == req[r]
       IN req' = [req EXCEPT ![r] = [rr EXCEPT !.pc = "ethosFetch",
                    !.timestamp = Some(BlockTimestamp(rr.recentLogs[rr.i].blockNumber)),
                    !.timer = IF variant = "full" THEN "armed" ELSE "none"]]
    /\ UNCHANGED <<redFlagToken, fetcher, variant, endpoint, chain, now, cache, faults, creq>>

\* client.getBlock throws
GetBlockThrows(r) ==
    /\ req[r].pc = "getBlock"
    /\ CanFail(1)
    /\ faults' = faults + 1
    /\ Settle(r, PoolProcessFailed(req[r]))
    /\ UNCHANGED <<redFlagToken, fetcher, variant, endpoint, chain, now, creq>>

\* fetch() of getEthosScore settles: a response (2xx or not), or a rejection
EthosFetchSettles(r) ==
    /\ req[r].pc = "ethosFetch"
    /\ \E outcome \in {"score", "status", "network"} :
        /\ CanFail(Cost(outcome = "score"))
        /\ faults' = faults + Cost(outcome = "score")
        /\ LET rr == req[r]
               \* clearTimeout runs after fetch resolved, not after it rejected
               r1 == IF outcome # "network" /\ rr.timer = "armed"
                     THEN [rr EXCEPT !.timer = "cleared"] ELSE rr
           IN IF outcome = "score"
              THEN Settle(r, [r1 EXCEPT !.pc = "ethosBody"])
              ELSE Settle(r, PushPool(r1, outcome))
    /\ UNCHANGED <<redFlagToken, fetcher, variant, endpoint, chain, now, creq>>

\* the 5 s timer fires while fetch() is pending: controller.abort()
EthosTimeout(r) ==
    /\ req[r].pc = "ethosFetch"
    /\ req[r].timer = "armed"
    /\ CanFail(1)
    /\ faults' = faults + 1
    /\ Settle(r, PushPool([req[r] EXCEPT !.timer = "fired"], "aborted"))
    /\ UNCHANGED <<redFlagToken, fetcher, variant, endpoint, chain, now, creq>>

\* response.json() settles: the body parsed, or it could not be read
EthosBodySettles(r) ==
    /\ req[r].pc = "ethosBody"
    /\ \E outcome \in {"score", "body"} :
        /\ CanFail(Cost(outcome = "score"))
        /\ faults' = faults + Cost(outcome = "score")
        /\ Settle(r, PushPool(req[r], outcome))
    /\ UNCHANGED <<redFlagToken, fetcher, variant, endpoint, chain, now, creq>>

(***************************************************************************)
(* GET /creator/{addr}/pools.                                              *)
(***************************************************************************)
\* the addresses the client asks for
TargetAddrs == {Address(7, FALSE), Address(8, TRUE), Address(99, TRUE)}

CreatorResponse(st, a, sc, ps, e) ==
    [status |-> st, creator |-> a, creatorScore |-> sc, totalPools |-> Len(ps),
     pools |-> ps, error |-> e]

\* the response after the provider loop: every provider threw
CreatorFailed(rr) ==
    [IdleCreatorReq EXCEPT !.pc = "done", !.targetAddress = rr.targetAddress,
        !.resp = Some(CreatorResponse(200, Val(rr.targetAddress), Null, <<>>,
                                      Some("Failed to fetch creator pools")))]

\* `catch (err) { ...; continue; }` of the provider loop
CreatorNextProvider(rr) ==
    IF rr.p < Len(CREATOR_RPC_ENDPOINTS)
    THEN [IdleCreatorReq EXCEPT !.pc = "blockNumber", !.p = rr.p + 1,
                                !.targetAddress = rr.targetAddress]
    ELSE CreatorFailed(rr)

RECURSIVE CreatorFilterFrom(_)
\* "Filter logs by creator address": the next log with a hash, or the sort
CreatorFilterFrom(rr) ==
    IF rr.i > Len(rr.allLogs)
    THEN [rr EXCEPT !.pc = "ethosFetch", !.creatorPools = SortDesc(@)]
    ELSE IF IsNull(rr.allLogs[rr.i].transactionHash)
         THEN CreatorFilterFrom([rr EXCEPT !.i = @ + 1])
         ELSE [rr EXCEPT !.pc = "sender"]

\* the end of one iteration of the range loop of the creator route
CreatorAdvanceScan(rr) ==
    LET r1 == [rr EXCEPT !.offset = @ + rangeSize]
    IN IF r1.offset < creatorTotalRange
       THEN r1
       ELSE CreatorFilterFrom([r1 EXCEPT !.i = 1, !.offset = 0])

\* a sender lookup that answers receipt.from as the chain holds it
getTransactionSenderAsIs(h, ok) ==
    IF ok THEN Some(TxFrom(chain, Val(h))) ELSE Null

\* getTransactionSender of the creator route: lowercased, "" when it throws
getTransactionSenderLower(h, ok) ==
    IF ok THEN Some(toLowerCase(TxFrom(chain, Val(h)))) ELSE Null

CreatorPoolData(rr) ==
    LET log == rr.allLogs[rr.i]
    IN [ pool |-> log.id,
         token0Symbol |-> rr.sym[1],
         token1Symbol |-> rr.sym[2],
         blockNumber |-> log.blockNumber,
         timestamp |-> BlockTimestamp(log.blockNumber),
         txHash |-> log.transactionHash ]

CreatorStart ==
    /\ endpoint = "creator"
    /\ creq.pc = "idle"
    /\ \E addr \in TargetAddrs :
        creq' = [IdleCreatorReq EXCEPT !.pc = "blockNumber", !.p = 1,
                                       !.targetAddress = Some(toLowerCase(addr))]
    /\ UNCHANGED <<redFlagToken, fetcher, variant, endpoint, chain, now, cache, faults, req>>

CreatorGetBlockNumberReturns ==
    /\ creq.pc = "blockNumber"
    /\ creq' = [creq EXCEPT !.pc = "getLogs", !.currentBlock = ChainHead(chain)]
    /\ UNCHANGED <<redFlagToken, fetcher, variant, endpoint, chain, now, cache, faults, req>>

CreatorGetBlockNumberThrows ==
    /\ creq.pc = "blockNumber"
    /\ creq' = CreatorNextProvider(creq)
    /\ UNCHANGED <<redFlagToken, fetcher, variant, endpoint, chain, now, cache, faults, req>>

CreatorGetLogsReturns ==
    /\ creq.pc = "getLogs"
    /\ QueryTo(creq) >= 0
    /\ LET logs == LogsInRange(chain, creq.p, QueryFrom(creq), QueryTo(creq))
       IN creq' = CreatorAdvanceScan([creq EXCEPT !.allLogs = @ \o logs])
    /\ UNCHANGED <<redFlagToken, fetcher, variant, endpoint, chain, now, cache, faults, req>>

CreatorGetLogsThrows ==
    /\ creq.pc = "getLogs"
    /\ \/ QueryTo(creq) < 0 /\ faults' = faults
       \/ QueryTo(creq) >= 0 /\ CanFail(1) /\ faults' = faults + 1
    /\ creq' = CreatorAdvanceScan(creq)
    /\ UNCHANGED <<redFlagToken, fetcher, variant, endpoint, chain, now, cache, req>>

CreatorSenderSettles ==
    /\ creq.pc = "sender"
    /\ \E ok \in BOOLEAN :
        /\ CanFail(Cost(ok))
        /\ faults' = faults + Cost(ok)
        /\ LET sender == getTransactionSenderLower(creq.allLogs[creq.i].transactionHash, ok)
           IN creq' = IF sender # creq.targetAddress
                      THEN CreatorFilterFrom([creq EXCEPT !.i = @ + 1])
                      ELSE [creq EXCEPT !.pc = "symbols"]
    /\ UNCHANGED <<redFlagToken, fetcher, variant, endpoint, chain, now, cache, req>>

CreatorSymbolsSettle ==
    /\ creq.pc = "symbols"
    /\ \E ok0 \in BOOLEAN, ok1 \in BOOLEAN :
        /\ CanFail(Cost(ok0) + Cost(ok1))
        /\ faults' = faults + Cost(ok0) + Cost(ok1)
        /\ LET log == creq.allLogs[creq.i]
           IN creq' = [creq EXCEPT !.pc = "getBlock",
                        !.sym = << getTokenSymbol(<<log.id, 0>>, ok0),
                                   getTokenSymbol(<<log.id, 1>>, ok1) >>]
    /\ UNCHANGED <<redFlagToken, fetcher, variant, endpoint, chain, now, cache, req>>

CreatorGetBlockReturns ==
    /\ creq.pc = "getBlock"
    /\ creq' = CreatorFilterFrom([creq EXCEPT !.creatorPools = Append(@, CreatorPoolData(creq)),
                                              !.i = @ + 1, !.sym = <<>>])
    /\ UNCHANGED <<redFlagToken, fetcher, variant, endpoint, chain, now, cache, faults, req>>

\* client.getBlock throws inside the provider's try: the provider is abandoned
CreatorGetBlockThrows ==
    /\ creq.pc = "getBlock"
    /\ CanFail(1)
    /\ faults' = faults + 1
    /\ creq' = CreatorNextProvider(creq)
    /\ UNCHANGED <<redFlagToken, fetcher, variant, endpoint, chain, now, cache, req>>

\* fetch() of the creator route's getEthosScore settles
CreatorEthosFetchSettles ==
    /\ creq.pc = "ethosFetch"
    /\ \E outcome \in {"score", "status", "network"} :
        /\ CanFail(Cost(outcome = "score"))
        /\ faults' = faults + Cost(outcome = "score")
        /\ creq' = IF outcome = "score"
                   THEN [creq EXCEPT !.pc = "ethosBody"]
                   ELSE [IdleCreatorReq EXCEPT !.pc = "done", !.p = creq.p,
                            !.targetAddress = creq.targetAddress,
                            !.allLogs = creq.allLogs,
                            !.resp = Some(CreatorResponse(200, Val(creq.targetAddress),
                                getEthosScoreSimple(outcome, Val(creq.targetAddress)),
                                creq.creatorPools, Absent))]
    /\ UNCHANGED <<redFlagToken, fetcher, variant, endpoint, chain, now, cache, req>>

\* response.json() of the creator route's getEthosScore settles
CreatorEthosBodySettles ==
    /\ creq.pc = "ethosBody"
    /\ \E outcome \in {"score", "body"} :
        /\ CanFail(Cost(outcome = "score"))
        /\ faults' = faults + Cost(outcome = "score")
        /\ creq' = [IdleCreatorReq EXCEPT !.pc = "done", !.p = creq.p,
                        !.targetAddress = creq.targetAddress,
                        !.allLogs = creq.allLogs,
                        !.resp = Some(CreatorResponse(200, Val(creq.targetAddress),
                            getEthosScoreSimple(outcome, Val(creq.targetAddress)),
                            creq.creatorPools, Absent))]
    /\ UNCHANGED <<redFlagToken, fetcher, variant, endpoint, chain, now, cache, req>>

Next ==
    \/ Tick
    \/ CreatorStart
    \/ CreatorGetBlockNumberReturns
    \/ CreatorGetBlockNumberThrows
    \/ CreatorGetLogsReturns
    \/ CreatorGetLogsThrows
    \/ CreatorSenderSettles
    \/ CreatorSymbolsSettle
    \/ CreatorGetBlockReturns
    \/ CreatorGetBlockThrows
    \/ CreatorEthosFetchSettles
    \/ CreatorEthosBodySettles
    \/ \E r \in Reqs :
        \/ Start(r)
        \/ GetBlockNumberReturns(r)
        \/ GetBlockNumberThrows(r)
        \/ GetLogsReturns(r)
        \/ GetLogsThrows(r)
        \/ SenderSettles(r)
        \/ CountSettles(r)
        \/ SymbolsSettle(r)
        \/ DeployerSettles(r)
        \/ GetBlockReturns(r)
        \/ GetBlockThrows(r)
        \/ EthosFetchSettles(r)
        \/ EthosTimeout(r)
        \/ EthosBodySettles(r)

Spec == Init /\ [][Next]_vars

(***************************************************************************)
(* Two GET /pools requests that may overlap: a request is received while   *)
(* the other one is at any of its awaits.  The providers answer            *)
(* getBlockNumber; every other external call may fail.                     *)
(***************************************************************************)
StartOverlapping(r) ==
    /\ endpoint = "pools"
    /\ req[r].pc = "idle"
    /\ req' = [req EXCEPT ![r] =
            IF CacheHit
            THEN [IdleReq EXCEPT !.pc = "done",
                     !.resp = Some(Response(200, Val(cache).data,
                                            Some(Val(cache).timestamp), Some(TRUE), Absent))]
            ELSE [IdleReq EXCEPT !.pc = "blockNumber", !.p = 1]]
    /\ UNCHANGED <<redFlagToken, fetcher, variant, endpoint, chain, now, cache, faults, creq>>

RaceInit ==
    /\ endpoint = "pools"
    /\ variant \in {"full", "simple"}
    /\ chain = "pair"
    /\ now = 0
    /\ cache = Null
    /\ faults = 0
    /\ req = [r \in Reqs |-> IdleReq]
    /\ creq = IdleCreatorReq
    /\ fetcher = IdleFetcher
    /\ redFlagToken = Deployed

RaceNext ==
    \/ Tick
    \/ \E r \in Reqs :
        \/ StartOverlapping(r)
        \/ GetBlockNumberReturns(r)
        \/ GetLogsReturns(r)
        \/ GetLogsThrows(r)
        \/ SenderSettles(r)
        \/ CountSettles(r)
        \/ SymbolsSettle(r)
        \/ DeployerSettles(r)
        \/ GetBlockReturns(r)
        \/ GetBlockThrows(r)
        \/ EthosFetchSettles(r)
        \/ EthosTimeout(r)
        \/ EthosBodySettles(r)

RaceSpec == RaceInit /\ [][RaceNext]_vars

(***************************************************************************)
(* The same two requests while the chain grows: between two reads of       *)
(* getBlockNumber the head may have moved on by a block that holds a new   *)
(* event.  Here every external call answers: the fault budget is spent     *)
(* from the start.                                                         *)
(***************************************************************************)
NewBlock ==
    /\ chain = "pair"
    /\ chain' = "grown"
    /\ UNCHANGED <<redFlagToken, fetcher, variant, endpoint, now, cache, faults, req, creq>>

GrowInit ==
    /\ endpoint = "pools"
    /\ variant \in {"full", "simple"}
    /\ chain = "pair"
    /\ now = 0
    /\ cache = Null
    /\ faults = MaxFaults
    /\ req = [r \in Reqs |-> IdleReq]
    /\ creq = IdleCreatorReq
    /\ fetcher = IdleFetcher
    /\ redFlagToken = Deployed

GrowNext ==
    \/ Tick
    \/ NewBlock
    \/ \E r \in Reqs :
        \/ StartOverlapping(r)
        \/ GetBlockNumberReturns(r)
        \/ GetLogsReturns(r)
        \/ SenderSettles(r)
        \/ CountSettles(r)
        \/ SymbolsSettle(r)
        \/ DeployerSettles(r)
        \/ GetBlockReturns(r)
        \/ EthosFetchSettles(r)
        \/ EthosBodySettles(r)

GrowSpec == GrowInit /\ [][GrowNext]_vars

(***************************************************************************)
(* fetchLogsInChunks.  An event is identified by its block; the chain of   *)
(* the script has an event in the first and in the last block of every     *)
(* hundred.                                                                *)
(***************************************************************************)
FetcherEvents ==
    [k \in 1..260 |-> IF k % 2 = 1 THEN ((k - 1) \div 2) * 100 ELSE (k \div 2) * 100 - 1]

\* client.getLogs({fromBlock, toBlock}) of the script's chain
FetcherLogsInRange(from, to) ==
    SelectSeq(FetcherEvents, LAMBDA b : b >= from /\ b <= to)

\* the arguments of the calls that are explored
FetcherFroms == {0, 98, 4100}
FetcherSpans == {0, 1, 4, 5, 899, 900, 1800, 4999, 5000, 7000}
FetcherChunkSizes == {1, 2, 3, 900, 2000, DefaultChunkSize}

\* a chunk that reaches one block into the next chunk
ChunkEndOverlaps(start, size, to) ==
    IF start + size > to THEN to ELSE start + size

\* `end` of the chunk that starts at `start`
ChunkEnd(start, size, to) ==
    IF start + size - 1 > to THEN to ELSE start + size - 1

\* `e` of the sub-chunk that starts at s, inside a chunk that ends at end
SubChunkEnd(s, end) ==
    IF s + smallerChunk - 1 > end THEN end ELSE s + smallerChunk - 1

Query(from, to, ok) == [from |-> from, to |-> to, ok |-> ok]

\* `start += chunkSize` and the test of the chunk loop
FetcherNextChunk(f) ==
    LET f1 == [f EXCEPT !.start = @ + f.chunkSize, !.s = 0]
    IN IF f1.start <= f1.toBlock THEN [f1 EXCEPT !.pc = "chunk"]
                                   ELSE [f1 EXCEPT !.pc = "done", !.start = 0]

FetcherEnd(f) == ChunkEnd(f.start, f.chunkSize, f.toBlock)

FetcherInit ==
    /\ endpoint = "debug"
    /\ variant = "full"
    /\ chain = "empty"
    /\ now = 0
    /\ cache = Null
    /\ faults = 0
    /\ req = [r \in Reqs |-> IdleReq]
    /\ creq = IdleCreatorReq
    /\ redFlagToken = Deployed
    /\ \E from \in FetcherFroms, span \in FetcherSpans, size \in FetcherChunkSizes :
        /\ span \div size < MaxChunks
        /\ fetcher = [IdleFetcher EXCEPT !.pc = "chunk", !.fromBlock = from,
                        !.toBlock = from + span, !.chunkSize = size, !.start = from]

\* getLogs of a chunk answers
ChunkReturns ==
    /\ fetcher.pc = "chunk"
    /\ LET end == FetcherEnd(fetcher)
       IN fetcher' = FetcherNextChunk([fetcher EXCEPT
                !.allLogs = @ \o FetcherLogsInRange(fetcher.start, end),
                !.queries = Append(@, Query(fetcher.start, end, TRUE))])
    /\ UNCHANGED <<redFlagToken, variant, endpoint, chain, now, cache, faults, req, creq>>

\* getLogs of a chunk throws: "Try smaller chunk"
ChunkThrows ==
    /\ fetcher.pc = "chunk"
    /\ fetcher' = [fetcher EXCEPT !.pc = "sub", !.s = fetcher.start,
                !.queries = Append(@, Query(fetcher.start, FetcherEnd(fetcher), FALSE))]
    /\ UNCHANGED <<redFlagToken, variant, endpoint, chain, now, cache, faults, req, creq>>

\* getLogs of a sub-chunk answers
SubChunkReturns ==
    /\ fetcher.pc = "sub"
    /\ LET end == FetcherEnd(fetcher)
           e == SubChunkEnd(fetcher.s, end)
           f1 == [fetcher EXCEPT
                    !.allLogs = @ \o FetcherLogsInRange(fetcher.s, e),
                    !.queries = Append(@, Query(fetcher.s, e, TRUE)),
                    !.s = @ + smallerChunk]
       IN fetcher' = IF f1.s <= end THEN f1 ELSE FetcherNextChunk(f1)
    /\ UNCHANGED <<redFlagToken, variant, endpoint, chain, now, cache, faults, req, creq>>

\* getLogs of a sub-chunk throws: the inner catch ends the sub-chunk loop
SubChunkThrows ==
    /\ fetcher.pc = "sub"
    /\ LET end == FetcherEnd(fetcher)
           e == SubChunkEnd(fetcher.s, end)
       IN fetcher' = FetcherNextChunk([fetcher EXCEPT
                !.queries = Append(@, Query(fetcher.s, e, FALSE))])
    /\ UNCHANGED <<redFlagToken, variant, endpoint, chain, now, cache, faults, req, creq>>

FetcherNext ==
    \/ ChunkReturns
    \/ ChunkThrows
    \/ SubChunkReturns
    \/ SubChunkThrows

FetcherSpec == FetcherInit /\ [][FetcherNext]_vars

(***************************************************************************)
(* RedFlagToken.  Accounts are the deployer and two other addresses;       *)
(* amounts are uint256 scaled down to 0..MaxUint, with the checked         *)
(* arithmetic of Solidity 0.8: a subtraction below 0 or an addition above  *)
(* MaxUint reverts the call, and a reverted call leaves the storage as it  *)
(* was.                                                                    *)
(***************************************************************************)
\* balanceOf[from] -= value; balanceOf[to] += value
MoveBalance(bal, from, to, value) ==
    LET b1 == [bal EXCEPT ![from] = @ - value]
    IN [b1 EXCEPT ![to] = @ + value]

\* the checked arithmetic of the two statements does not panic
MoveBalanceFits(bal, from, to, value) ==
    /\ bal[from] - value >= 0
    /\ MoveBalance(bal, from, to, value)[to] <= MaxUint

\* transfer(to, value) called by sender
transfer(sender, to, value) ==
    /\ endpoint = "token"
    /\ redFlagToken.calls < MaxCalls
    /\ LET ok == redFlagToken.balanceOf[sender] >= value
                 /\ MoveBalanceFits(redFlagToken.balanceOf, sender, to, value)
           t1 == [redFlagToken EXCEPT !.calls = @ + 1,
                               !.last = Call("transfer", ok, sender, sender, to, value)]
       IN redFlagToken' = IF ok
                   THEN [t1 EXCEPT !.balanceOf = MoveBalance(@, sender, to, value)]
                   ELSE t1
    /\ UNCHANGED <<variant, endpoint, chain, now, cache, faults, req, creq, fetcher>>

\* approve(spender, value) called by sender
approve(sender, spender, value) ==
    /\ endpoint = "token"
    /\ redFlagToken.calls < MaxCalls
    /\ redFlagToken' = [redFlagToken EXCEPT !.calls = @ + 1,
                              !.allowance[sender][spender] = value,
                              !.last = Call("approve", TRUE, sender, spender, spender, value)]
    /\ UNCHANGED <<variant, endpoint, chain, now, cache, faults, req, creq, fetcher>>

\* a transferFrom that leaves the allowance as it is
AfterTransferFromKeepsAllowance(t, sender, from, to, value) ==
    [t EXCEPT !.balanceOf = MoveBalance(@, from, to, value)]

\* the storage after the three assignments of a transferFrom that passed its
\* require statements
AfterTransferFrom(t, sender, from, to, value) ==
    [t EXCEPT !.allowance[from][sender] = @ - value,
              !.balanceOf = MoveBalance(@, from, to, value)]

\* transferFrom(from, to, value) called by sender
transferFrom(sender, from, to, value) ==
    /\ endpoint = "token"
    /\ redFlagToken.calls < MaxCalls
    /\ LET ok == /\ redFlagToken.balanceOf[from] >= value
                 /\ redFlagToken.allowance[from][sender] >= value
                 /\ MoveBalanceFits(redFlagToken.balanceOf, from, to, value)
           t1 == [redFlagToken EXCEPT !.calls = @ + 1,
                               !.last = Call("transferFrom", ok, from, sender, to, value)]
       IN redFlagToken' = IF ok THEN AfterTransferFrom(t1, sender, from, to, value) ELSE t1
    /\ UNCHANGED <<variant, endpoint, chain, now, cache, faults, req, creq, fetcher>>

TokenInit ==
    /\ endpoint = "token"
    /\ variant = "full"
    /\ chain = "empty"
    /\ now = 0
    /\ cache = Null
    /\ faults = 0
    /\ req = [r \in Reqs |-> IdleReq]
    /\ creq = IdleCreatorReq
    /\ fetcher = IdleFetcher
    /\ redFlagToken = Deployed

TokenNext ==
    \E sender, a, b \in Accounts, value \in Amounts :
        \/ transfer(sender, a, value)
        \/ approve(sender, a, value)
        \/ transferFrom(sender, a, b, value)

TokenSpec == TokenInit /\ [][TokenNext]_vars

(***************************************************************************)
(* Properties.                                                             *)
(***************************************************************************)
Done(r) == req[r].pc = "done"
Resp(r) == Val(req[r].resp)
Range(s) == {s[k] : k \in DOMAIN s}

\* the logs provider p has in the window of the /pools scan
WindowLogs(p) ==
    {l \in Range(ProviderLogs(chain, p)) :
        /\ l.blockNumber <= ChainHead(chain)
        /\ l.blockNumber > ChainHead(chain) - totalRange}

\* C1: a GET /pools that finds a cache entry younger than 60000 ms answers
\* cached:true with the entry's pools and lastUpdated = the entry's timestamp
\* and scans nothing; with no entry, or an entry of age >= 60000 ms, it starts
\* a fresh scan at the first provider, and a request that scanned never
\* answers cached:true.
C1_CacheWindow ==
    [][\A r \in Reqs :
        /\ (req[r].pc = "idle" /\ req'[r].pc # "idle") =>
              IF ~IsNull(cache) /\ now - Val(cache).timestamp < 60000
              THEN /\ req'[r].pc = "done"
                   /\ Val(req'[r].resp) =
                        Response(200, Val(cache).data, Some(Val(cache).timestamp),
                                 Some(TRUE), Absent)
              ELSE /\ req'[r].pc = "blockNumber"
                   /\ req'[r].p = 1
                   /\ IsNull(req'[r].resp)
        /\ (req[r].pc \notin {"idle", "done"} /\ req'[r].pc = "done") =>
              Val(req'[r].resp).cached # Some(TRUE)
    ]_vars

\* a request served from an entry that is 59999 ms old
C1_Witness ==
    \E r \in Reqs :
        /\ Done(r)
        /\ Resp(r).cached = Some(TRUE)
        /\ Len(Resp(r).pools) > 0
        /\ now - Val(Resp(r).lastUpdated) = 59999

\* C2: when every provider before B threw on getBlockNumber or has no event
\* in the window, and B answers every call and has events, the logs GET
\* works on are B's logs of the window (all of them while there are fewer
\* than the scan's target, else at least the target), and the response is a
\* 200 without an error field, not served from cache.
C2_FallbackUsesFirstProviderWithEvents ==
    \A r \in Reqs : \A b \in DOMAIN RPC_ENDPOINTS :
        ( /\ Done(r)
          /\ Resp(r).cached # Some(TRUE)
          /\ faults = 0
          /\ b \notin req[r].threw
          /\ WindowLogs(b) # {}
          /\ \A a \in 1..(b - 1) : a \in req[r].threw \/ WindowLogs(a) = {} )
        => /\ req[r].p = b
           /\ Range(req[r].logs) \subseteq WindowLogs(b)
           /\ IF Cardinality(WindowLogs(b)) < LogTarget
              THEN Range(req[r].logs) = WindowLogs(b)
              ELSE Len(req[r].logs) >= LogTarget
           /\ Len(req[r].logs) = Cardinality(Range(req[r].logs))
           /\ Resp(r).status = 200
           /\ Resp(r).error = Absent
           /\ Len(Resp(r).pools) = Len(req[r].recentLogs)

\* the first provider has no event, the second has indexed less than the third:
\* the response is built from the second provider's three logs
C2_Witness ==
    \E r \in Reqs :
        /\ chain = "split"
        /\ Done(r)
        /\ req[r].threw = {}
        /\ req[r].p = 2
        /\ faults = 0
        /\ Len(Resp(r).pools) = 3

\* C3: when no provider yields an event (each threw on getBlockNumber or
\* finished its scan with nothing), GET /pools answers 200 with pools = [],
\* cached = false and a lastUpdated.
C3_NoDataBody ==
    \A r \in Reqs :
        (Done(r) /\ Resp(r).cached # Some(TRUE) /\ req[r].logs = <<>>)
        => /\ Resp(r).status = 200
           /\ Resp(r).pools = <<>>
           /\ Resp(r).cached = Some(FALSE)
           /\ ~IsNull(Resp(r).lastUpdated)

\* C4: whatever external calls fail (getBlockNumber, getLogs, the receipt,
\* symbol and block reads, the reputation service), every response of
\* GET /pools and of GET /creator/{address}/pools has status 200.
C4_AlwaysSuccess ==
    /\ \A r \in Reqs : Done(r) => Resp(r).status = 200
    /\ creq.pc = "done" => Val(creq.resp).status = 200

\* a /pools request that answered although a provider threw on
\* getBlockNumber and the block read of one of its events failed
C4_Witness ==
    \E r \in Reqs :
        /\ Done(r)
        /\ faults = MaxFaults
        /\ req[r].threw # {}
        /\ Len(Resp(r).pools) < Len(req[r].recentLogs)
        /\ Resp(r).status = 200

\* the pool pushed by the step that ended a reputation lookup
LastPool(rr) ==
    IF rr.pc = "done"
    THEN Val(rr.resp).pools[Len(Val(rr.resp).pools)]
    ELSE rr.poolsData[Len(rr.poolsData)]

\* C5: in the full /pools enrichment, a reputation lookup that fails
\* (timeout, non-2xx status, network error, unreadable body) pushes a pool
\* with scoreError non-null and creatorScore null; a lookup that succeeds
\* pushes scoreError null and the score on file, null when there is none.
C5_LookupFailureIsReported ==
    [][\A r \in Reqs :
        ( /\ variant = "full"
          /\ req[r].pc \in {"ethosFetch", "ethosBody"}
          /\ req'[r].pc \notin {"ethosFetch", "ethosBody"} )
        => LET pd == LastPool(req'[r])
           IN IF faults' > faults
              THEN ~IsNull(pd.scoreError) /\ IsNull(pd.creatorScore)
              ELSE IsNull(pd.scoreError) /\ pd.creatorScore = ScoreOnFile(pd.creator)
    ]_vars

\* one response with a pool whose lookup timed out and a pool whose creator
\* has no score on file
C5_Witness ==
    \E r \in Reqs :
        /\ Done(r)
        /\ variant = "full"
        /\ \E k \in DOMAIN Resp(r).pools :
              /\ Resp(r).pools[k].scoreError = Some("aborted")
              /\ IsNull(Resp(r).pools[k].creatorScore)
        /\ \E k \in DOMAIN Resp(r).pools :
              /\ IsNull(Resp(r).pools[k].scoreError)
              /\ IsNull(Resp(r).pools[k].creatorScore)

\* C6: while a reputation lookup of the full /pools enrichment is waiting
\* on the service, for the headers or for the body, its 5 s abort timer is
\* armed, so a service that stalls is always cut off.
C6_AbortArmedWhileWaiting ==
    \A r \in Reqs :
        (variant = "full" /\ req[r].pc \in {"ethosFetch", "ethosBody"})
        => req[r].timer = "armed"

\* no sender lookup of the request failed: a failed lookup yields the zero
\* address, which no transaction of the chain has as its sender
NoSenderLookupFailed(rr) ==
    /\ ZeroAddress \notin DOMAIN rr.creatorPoolCount
    /\ \A k \in DOMAIN rr.creators : rr.creators[k] # Some(ZeroAddress)

\* the creator of a gathered event: its transaction's sender, the zero
\* address when it has no transaction hash
EventCreator(l) ==
    IF IsNull(l.transactionHash) THEN ZeroAddress ELSE TxFrom(chain, Val(l.transactionHash))

\* the gathered events whose creator equals a, letter case ignored
SameCreator(rr, a) ==
    {k \in DOMAIN rr.logs : EventCreator(rr.logs[k]).who = a.who}

\* C7: when every gathered event has a transaction hash and every sender
\* lookup succeeded, a returned pool has isFirstPoolByCreator = false when
\* another gathered event has the same creator (letter case ignored), and
\* true when no other gathered event has.
C7_FirstPoolCaseInsensitive ==
    \A r \in Reqs :
        ( /\ Done(r)
          /\ variant = "full"
          /\ Resp(r).cached # Some(TRUE)
          /\ \A k \in DOMAIN req[r].logs : ~IsNull(req[r].logs[k].transactionHash)
          /\ NoSenderLookupFailed(req[r]) )
        => \A k \in DOMAIN Resp(r).pools :
              LET pd == Resp(r).pools[k]
              IN pd.isFirstPoolByCreator = (Cardinality(SameCreator(req[r], pd.creator)) = 1)

\* two returned pools whose creators differ only in letter case, both
\* flagged false, next to a pool of a creator with one event, flagged true
C7_Witness ==
    \E r \in Reqs :
        /\ Done(r)
        /\ variant = "full"
        /\ \A k \in DOMAIN req[r].logs : ~IsNull(req[r].logs[k].transactionHash)
        /\ NoSenderLookupFailed(req[r])
        /\ \E j, k, m \in DOMAIN Resp(r).pools :
              /\ Resp(r).pools[j].creator = Address(7, FALSE)
              /\ Resp(r).pools[k].creator = Address(7, TRUE)
              /\ ~Resp(r).pools[j].isFirstPoolByCreator
              /\ ~Resp(r).pools[k].isFirstPoolByCreator
              /\ Resp(r).pools[m].isFirstPoolByCreator

\* C8: for every pool of a non-cached full /pools response whose sender
\* lookups all succeeded, isFirstPoolByCreator is true exactly when one
\* gathered event has the pool's creator (letter case ignored), the creator
\* of an event without a transaction hash being the zero address.
C8_FirstPoolIffCountOne ==
    \A r \in Reqs :
        ( /\ Done(r)
          /\ variant = "full"
          /\ Resp(r).cached # Some(TRUE)
          /\ NoSenderLookupFailed(req[r]) )
        => \A k \in DOMAIN Resp(r).pools :
              LET pd == Resp(r).pools[k]
              IN pd.isFirstPoolByCreator <=> Cardinality(SameCreator(req[r], pd.creator)) = 1

\* C9: every one of the most recent gathered events (at most 15) is in the
\* non-cached /pools response, in order, whatever lookups of it failed.
C9_NoEventDropped ==
    \A r \in Reqs :
        (Done(r) /\ Resp(r).cached # Some(TRUE))
        => /\ Len(Resp(r).pools) = Len(req[r].recentLogs)
           /\ \A k \in DOMAIN Resp(r).pools :
                 Resp(r).pools[k].pool = req[r].recentLogs[k].id

\* C10: while no getLogs call of fetchLogsInChunks has failed, the ranges it
\* has queried are non-empty, start at fromBlock, follow one another without
\* a gap or an overlap and stay within [fromBlock, toBlock]; when the call
\* returns they end at toBlock, and allLogs holds each event of the range
\* exactly once, in chain order.
C10_ChunksPartitionRange ==
    LET q == fetcher.queries
    IN (fetcher.pc # "off" /\ \A k \in DOMAIN q : q[k].ok)
       => /\ \A k \in DOMAIN q :
               /\ q[k].from <= q[k].to
               /\ q[k].from = (IF k = 1 THEN fetcher.fromBlock ELSE q[k - 1].to + 1)
               /\ q[k].to <= fetcher.toBlock
               /\ q[k].to - q[k].from < fetcher.chunkSize
          /\ fetcher.allLogs =
               FetcherLogsInRange(fetcher.fromBlock,
                                  IF q = <<>> THEN fetcher.fromBlock - 1 ELSE q[Len(q)].to)
          /\ fetcher.pc = "done" =>
               /\ q # <<>>
               /\ q[Len(q)].to = fetcher.toBlock

\* a call over 7001 blocks that returned after two chunks of the default
\* size, the second one clipped at toBlock, with events from both
C10_Witness ==
    /\ fetcher.pc = "done"
    /\ fetcher.chunkSize = 5000
    /\ fetcher.toBlock - fetcher.fromBlock = 7000
    /\ Len(fetcher.queries) = 2
    /\ \A k \in DOMAIN fetcher.queries : fetcher.queries[k].ok
    /\ Len(fetcher.allLogs) > 100

\* the k-th getLogs call of the fetcher is a sub-chunk query: it starts inside
\* a chunk, or it follows the failed query of the chunk it starts
IsSubQuery(k) ==
    LET q == fetcher.queries
    IN /\ k > 1
       /\ \/ (q[k].from - fetcher.fromBlock) % fetcher.chunkSize # 0
          \/ ~q[k - 1].ok /\ q[k - 1].from = q[k].from

\* C11: when fetchLogsInChunks has returned, every chunk whose query failed
\* has had each of its 900-block sub-chunks queried, whether or not an
\* earlier sub-chunk of the chunk failed.
C11_SubChunksIndependent ==
    LET q == fetcher.queries
    IN fetcher.pc = "done" =>
        \A k \in DOMAIN q :
            (~q[k].ok /\ ~IsSubQuery(k)) =>
                \A m \in 0..((q[k].to - q[k].from) \div 900) :
                    \E j \in DOMAIN q :
                        /\ j > k
                        /\ IsSubQuery(j)
                        /\ q[j].from = q[k].from + m * 900
                        /\ q[j].to <= q[k].to


\* C12: every range query of the /pools scan and of the creator scan has
\* fromBlock >= 1, also when the head is below the scan depth: the lower
\* bound toBlock - 1999 is replaced by 1 when it is zero or negative, and the
\* scan of such a chain still gathers the events of the clamped range.
C12_FromBlockAtLeastOne ==
    /\ \A r \in Reqs :
          /\ req[r].pc = "getLogs" =>
                /\ QueryFrom(req[r]) >= 1
                /\ QueryFrom(req[r]) >= req[r].currentBlock - req[r].offset - 1999
          /\ (Done(r) /\ chain = "young" /\ faults = 0 /\ req[r].threw = {}) =>
                Range(req[r].logs) = Range(ChainLogs("young"))
    /\ creq.pc = "getLogs" =>
          /\ QueryFrom(creq) >= 1
          /\ QueryFrom(creq) >= creq.currentBlock - creq.offset - 1999

\* the second range of a scan under head 3000: toBlock = 1000, lower bound
\* -999, queried from block 1
C12_Witness ==
    \E r \in Reqs :
        /\ chain = "young"
        /\ req[r].pc = "getLogs"
        /\ QueryTo(req[r]) = 1000
        /\ QueryFrom(req[r]) = 1
        /\ Len(req[r].allLogs) = 1


\* C13: a /pools request contacts the providers in list order, each at most
\* once: the first one when it starts, provider p + 1 only in the step in
\* which provider p threw on getBlockNumber or ended its scan with no event;
\* once a scan holds an event, and during the enrichment, the provider of
\* the request does not change.
C13_ProvidersInListOrder ==
    [][\A r \in Reqs :
        LET rr == req[r]
            rn == req'[r]
        IN /\ (rn.pc = "blockNumber" /\ rn # rr) =>
                \/ rr.pc = "idle" /\ rn.p = 1
                \/ /\ rn.p = rr.p + 1
                   /\ rr.pc = "blockNumber"
                   /\ rr.p \in rn.threw
                \/ /\ rn.p = rr.p + 1
                   /\ rr.pc = "getLogs"
                   /\ rr.allLogs = <<>>
                   /\ rr.offset + 2000 >= 100000
           /\ (rr.pc = "getLogs" /\ rr.allLogs # <<>>) => rn.p = rr.p
           /\ rr.pc \notin {"idle", "blockNumber", "getLogs", "done"} =>
                rn.p = rr.p /\ rn.pc \notin {"blockNumber", "getLogs"}
    ]_vars

\* the third provider is scanned after the first ended its scan with no
\* event and the second threw on getBlockNumber
C13_Witness ==
    \E r \in Reqs :
        /\ chain = "split"
        /\ req[r].pc = "getLogs"
        /\ req[r].p = 3
        /\ req[r].threw = {2}
        /\ req[r].allLogs # <<>>


\* C14: while a /pools request waits on a sender lookup, a symbol read or a
\* block read, its client (field p) is the provider whose scan returned the
\* logs the request works on: a provider that did not throw on
\* getBlockNumber, that holds every one of these logs, and after which no
\* provider was tried.
C14_LookupsUseScanProvider ==
    \A r \in Reqs :
        req[r].pc \in {"senders", "count", "symbols", "deployer", "getBlock"} =>
            /\ req[r].p \in DOMAIN RPC_ENDPOINTS
            /\ req[r].p \notin req[r].threw
            /\ req[r].logs # <<>>
            /\ Range(req[r].logs) \subseteq WindowLogs(req[r].p)
            /\ \A a \in req[r].threw : a < req[r].p

\* a block read sent to the second provider, whose three logs the request
\* enriches; the first provider has none and the third has four
C14_Witness ==
    \E r \in Reqs :
        /\ chain = "split"
        /\ req[r].pc = "getBlock"
        /\ req[r].p = 2
        /\ Len(req[r].logs) = 3
        /\ WindowLogs(1) = {}
        /\ Cardinality(WindowLogs(3)) = 4


\* the pools of a full-variant response or cache entry in which a pool has
\* an error and a score
ScoreAndError(ps) ==
    \E k \in DOMAIN ps : ~IsNull(ps[k].scoreError) /\ ~IsNull(ps[k].creatorScore)

\* C15: no pool of a /pools response (full variant), fresh or served from
\* cache, and no pool of the cache entry has both a scoreError and a
\* creatorScore.
C15_ScoreErrorExclusive ==
    variant = "full" =>
        /\ \A r \in Reqs : Done(r) => ~ScoreAndError(Resp(r).pools)
        /\ ~IsNull(cache) => ~ScoreAndError(Val(cache).data)

\* a response served from cache with a pool whose lookup failed next to a
\* pool with a score
C15_Witness ==
    \E r \in Reqs :
        /\ variant = "full"
        /\ Done(r)
        /\ Resp(r).cached = Some(TRUE)
        /\ \E k \in DOMAIN Resp(r).pools :
              ~IsNull(Resp(r).pools[k].scoreError) /\ IsNull(Resp(r).pools[k].creatorScore)
        /\ \E k \in DOMAIN Resp(r).pools :
              IsNull(Resp(r).pools[k].scoreError) /\ ~IsNull(Resp(r).pools[k].creatorScore)


\* C16: the pools of every /pools response, fresh or served from cache, are
\* in non-increasing order of blockNumber.
C16_PoolsNewestFirst ==
    \A r \in Reqs :
        Done(r) =>
            \A j, k \in DOMAIN Resp(r).pools :
                j < k => Resp(r).pools[j].blockNumber >= Resp(r).pools[k].blockNumber

\* a response with three pools of different blocks, built from four events
\* that the scan gathered in another order and of which one was dropped
C16_Witness ==
    \E r \in Reqs :
        /\ chain = "small"
        /\ Done(r)
        /\ Len(req[r].recentLogs) = 4
        /\ Len(Resp(r).pools) = 3
        /\ Resp(r).pools[1].blockNumber > Resp(r).pools[3].blockNumber


\* C17: the receipt lookup that the count pass of a /pools request (full
\* variant) waits on is for a transaction hash that the first pass of the
\* same request has not looked up: no hash is looked up twice.
C17_SenderLookedUpOnce ==
    \A r \in Reqs :
        req[r].pc = "count" =>
            \A k \in DOMAIN req[r].creators :
                req[r].recentLogs[k].transactionHash # req[r].logs[req[r].i].transactionHash


\* C18: with two /pools requests that may overlap, a request received while
\* the cache holds no fresh entry starts its own scan at the first provider
\* whatever the other request is doing; a step of one request leaves the
\* other request as it is; a request that ends a scan with logs answers
\* cached:false with the pools of its own recent logs and puts exactly its
\* own result in the cache; and the cache changes in no other step, so the
\* entry is that of the request that put last.
C18_RacingMissesLastWriterWins ==
    [][/\ \A r \in Reqs :
            LET rr == req[r]
                rn == req'[r]
            IN /\ (rr.pc = "idle" /\ rn.pc # "idle"
                     /\ (IsNull(cache) \/ now - Val(cache).timestamp >= 60000)) =>
                     rn.pc = "blockNumber" /\ rn.p = 1
               /\ rn # rr => \A o \in Reqs \ {r} : req'[o] = req[o]
               /\ (rr.pc \notin {"idle", "done"} /\ rn.pc = "done" /\ rn.logs # <<>>) =>
                     /\ Val(rn.resp).cached = Some(FALSE)
                     /\ \A k \in DOMAIN Val(rn.resp).pools :
                           \E m \in DOMAIN rn.recentLogs :
                               Val(rn.resp).pools[k].pool = rn.recentLogs[m].id
                     /\ cache' = Some([data |-> Val(rn.resp).pools,
                                       timestamp |-> Val(Val(rn.resp).lastUpdated)])
       /\ cache' # cache =>
            \E r \in Reqs : req[r].pc \notin {"idle", "done"} /\ req'[r].pc = "done"
    ]_vars

\* both requests scanned and answered cached:false with different pools; the
\* second answered 59999 ms after the first, so it was received before the
\* first one's put, and the cache holds the second one's entry
C18_Witness ==
    /\ Done(1) /\ Done(2)
    /\ Resp(1).cached = Some(FALSE)
    /\ Resp(2).cached = Some(FALSE)
    /\ Resp(1).lastUpdated = Some(0)
    /\ Resp(2).lastUpdated = Some(59999)
    /\ Resp(1).pools # Resp(2).pools
    /\ Len(Resp(1).pools) = 2
    /\ cache = Some([data |-> Resp(2).pools, timestamp |-> 59999])


\* the gathered events of the creator scan that have a transaction hash and
\* whose transaction was sent by a, letter case ignored
CreatorMatches(logs, a) ==
    {k \in DOMAIN logs :
        /\ ~IsNull(logs[k].transactionHash)
        /\ TxFrom(chain, Val(logs[k].transactionHash)).who = a.who}

\* C19: in GET /creator/{address}/pools the target is the requested address
\* lowercased; a gathered event is kept exactly when its receipt lookup
\* answered a sender equal to the target, letter case ignored; the answer
\* lists the kept events (all events sent by the target when no call failed)
\* by block number non-increasing, with totalPools = the length of the list
\* and creator = the target; and the one reputation lookup is followed by
\* the response.
C19_CreatorPoolsFiltered ==
    [][LET rr == creq
           rn == creq'
       IN /\ (rr.pc = "idle" /\ rn.pc # "idle") =>
                \E a \in TargetAddrs : rn.targetAddress = Some([who |-> a.who, lower |-> TRUE])
          /\ (rr.pc = "sender" /\ rn # rr) =>
                LET log == rr.allLogs[rr.i]
                    kept == rn.pc = "symbols" /\ rn.i = rr.i
                IN /\ ~IsNull(log.transactionHash)
                   /\ kept <=> /\ faults' = faults
                               /\ TxFrom(chain, Val(log.transactionHash)).who
                                    = Val(rr.targetAddress).who
          /\ (rr.pc \in {"ethosFetch", "ethosBody"} /\ rn # rr) =>
                \/ rr.pc = "ethosFetch" /\ rn.pc = "ethosBody"
                \/ rn.pc = "done" /\ Val(rn.resp).error = Absent
          /\ (rr.pc # "done" /\ rn.pc = "done" /\ Val(rn.resp).error = Absent) =>
                LET res == Val(rn.resp)
                    ids == {res.pools[k].pool : k \in DOMAIN res.pools}
                    all == {rn.allLogs[k].id :
                                k \in CreatorMatches(rn.allLogs, Val(rn.targetAddress))}
                IN /\ res.creator = Val(rn.targetAddress)
                   /\ res.totalPools = Len(res.pools)
                   /\ Cardinality(ids) = Len(res.pools)
                   /\ ids \subseteq all
                   /\ faults' = 0 => ids = all
                   /\ \A j, k \in DOMAIN res.pools :
                        j < k => res.pools[j].blockNumber >= res.pools[k].blockNumber
    ]_vars

\* the pools of an address requested in mixed case: three events, one sent
\* by the address in another casing, newest first, out of five gathered
C19_Witness ==
    /\ chain = "small"
    /\ creq.pc = "done"
    /\ faults = 0
    /\ Val(creq.resp).creator = Address(7, TRUE)
    /\ Val(creq.resp).totalPools = 3
    /\ Len(creq.allLogs) = 5
    /\ Val(creq.resp).pools[1].pool = 1
    /\ Val(creq.resp).pools[2].pool = 2
    /\ Val(creq.resp).pools[3].pool = 5


\* C20: when a range query of the /pools scan fails, the next query of the
\* request goes to the same provider and lies within the failed range (a
\* sub-chunk retry): the range is not given up after one failure.
C20_FailedRangeIsRetried ==
    [][\A r \in Reqs :
        (req[r].pc = "getLogs" /\ QueryTo(req[r]) >= 0 /\ faults' > faults) =>
            /\ req'[r].pc = "getLogs"
            /\ req'[r].p = req[r].p
            /\ QueryFrom(req'[r]) >= QueryFrom(req[r])
            /\ QueryTo(req'[r]) <= QueryTo(req[r])
            /\ QueryTo(req'[r]) >= QueryFrom(req[r])
    ]_vars


\* C21: when no external call of a /pools request failed, the pools of its
\* non-cached response are the min(15, n) most recent of the n events the
\* selected provider has in the 100000 blocks below the head, although the
\* scan stops gathering once it holds 25 (20 in the simple variant) events.
C21_PoolsAreMostRecentOfWindow ==
    \A r \in Reqs :
        ( /\ Done(r)
          /\ Resp(r).cached # Some(TRUE)
          /\ faults = 0
          /\ req[r].logs # <<>> )
        => LET w == WindowLogs(req[r].p)
               ids == {Resp(r).pools[k].pool : k \in DOMAIN Resp(r).pools}
           IN /\ Len(Resp(r).pools) = (IF Cardinality(w) < 15 THEN Cardinality(w) ELSE 15)
              /\ Cardinality(ids) = Len(Resp(r).pools)
              /\ \A l \in w :
                    \/ l.id \in ids
                    \/ \A k \in DOMAIN Resp(r).pools :
                          Resp(r).pools[k].blockNumber >= l.blockNumber

\* a scan that stopped at 26 of the 27 events of the window and answered
\* with the 15 newest, one of them from the second range it queried
C21_Witness ==
    \E r \in Reqs :
        /\ chain = "many"
        /\ Done(r)
        /\ faults = 0
        /\ Len(req[r].logs) = 26
        /\ Cardinality(WindowLogs(req[r].p)) = 27
        /\ Len(Resp(r).pools) = 15
        /\ Resp(r).pools[15].blockNumber < 249000


\* C22: a response of the creator route that carries no error comes from a
\* provider whose scan gathered at least one event: a provider that
\* gathered none is abandoned for the next one, and totalPools 0 for want
\* of events is answered only after every provider has been tried.
C22_EmptyScanAbandonsProvider ==
    (creq.pc = "done" /\ Val(creq.resp).error = Absent) => creq.allLogs # <<>>

\* C23: a creator response built after the reputation lookup failed differs
\* from the response of a creator with no score on file (creatorScore null
\* and no error indicator).
C23_CreatorLookupFailureIsReported ==
    [][( /\ creq.pc \in {"ethosFetch", "ethosBody"}
         /\ creq'.pc = "done"
         /\ faults' > faults )
       => Val(creq'.resp) # CreatorResponse(200, Val(creq.targetAddress), Null,
                                            creq.creatorPools, Absent)
    ]_vars


\* C24: a range query of the /pools scan starts no lower than block
\* head - 100000 + 1 and is at most the 50th of its provider; a range query
\* of the creator route starts no lower than head - 200000 + 1 and is at
\* most the 100th of its provider (a provider's queries are 2000 blocks
\* apart, one per offset).
C24_ScanDepthBounded ==
    /\ \A r \in Reqs :
          req[r].pc = "getLogs" =>
              /\ req[r].currentBlock = ChainHead(chain)
              /\ req[r].offset % 2000 = 0
              /\ req[r].offset \div 2000 + 1 <= 50
              /\ QueryFrom(req[r]) >= req[r].currentBlock - 100000 + 1
              /\ req[r].p \in 1..Len(RPC_ENDPOINTS)
    /\ creq.pc = "getLogs" =>
          /\ creq.currentBlock = ChainHead(chain)
          /\ creq.offset % 2000 = 0
          /\ creq.offset \div 2000 + 1 <= 100
          /\ QueryFrom(creq) >= creq.currentBlock - 200000 + 1
          /\ creq.p \in 1..Len(CREATOR_RPC_ENDPOINTS)

\* the 50th query of the last /pools provider, whose range starts at the
\* oldest block of the window
C24_Witness ==
    \E r \in Reqs :
        /\ req[r].pc = "getLogs"
        /\ req[r].p = Len(RPC_ENDPOINTS)
        /\ req[r].offset = 98000
        /\ QueryFrom(req[r]) = ChainHead(chain) - 99999


\* C25: the first range query a provider scan issues has toBlock = the head
\* block, and the query issued when a range query returned or failed, if
\* the scan of that provider goes on, has a toBlock exactly 2000 below it;
\* a request waits on one range query at a time.
C25_QueriesDescendFromHead ==
    [][/\ \A r \in Reqs :
            /\ (req[r].pc = "blockNumber" /\ req'[r].pc = "getLogs") =>
                  /\ req'[r].p = req[r].p
                  /\ QueryTo(req'[r]) = ChainHead(chain)
            /\ (req[r].pc = "getLogs" /\ req'[r].pc = "getLogs" /\ req'[r] # req[r]) =>
                  /\ req'[r].p = req[r].p
                  /\ QueryTo(req'[r]) = QueryTo(req[r]) - 2000
                  /\ Len(req'[r].allLogs) >= Len(req[r].allLogs)
       /\ (creq.pc = "blockNumber" /\ creq'.pc = "getLogs") =>
            /\ creq'.p = creq.p
            /\ QueryTo(creq') = ChainHead(chain)
       /\ (creq.pc = "getLogs" /\ creq'.pc = "getLogs" /\ creq' # creq) =>
            /\ creq'.p = creq.p
            /\ QueryTo(creq') = QueryTo(creq) - 2000
    ]_vars

\* a scan at its third query, after the first returned two events and the
\* second failed
C25_Witness ==
    \E r \in Reqs :
        /\ chain = "small"
        /\ req[r].pc = "getLogs"
        /\ req[r].offset = 4000
        /\ QueryTo(req[r]) = 246000
        /\ Len(req[r].allLogs) = 2
        /\ faults = 1


\* C26: every range query a scan is waiting on is a well-formed range,
\* 1 <= fromBlock <= toBlock, also when the head is lower than the depth
\* of the scan.
C26_RangesWellFormed ==
    /\ \A r \in Reqs :
          req[r].pc = "getLogs" =>
              /\ 1 <= QueryFrom(req[r])
              /\ QueryFrom(req[r]) <= QueryTo(req[r])
    /\ creq.pc = "getLogs" =>
          /\ 1 <= QueryFrom(creq)
          /\ QueryFrom(creq) <= QueryTo(creq)


\* the step is the put of request r: it ends a scan that gathered events
IsPut(r) ==
    /\ req[r].pc \notin {"idle", "done"}
    /\ req'[r].pc = "done"
    /\ req'[r].logs # <<>>

\* the request whose put made the entry the cache holds
MadeEntry(o) ==
    /\ Done(o)
    /\ req[o].logs # <<>>
    /\ cache = Some([data |-> Resp(o).pools, timestamp |-> Val(Resp(o).lastUpdated)])

\* C27 (as stated): while requests overlap and the chain grows, a put that
\* replaces an entry comes from a scan that read a head block number at
\* least as high as the scan whose put made the entry it replaces.
C27_PutsNeverGoBack ==
    [][\A r \in Reqs :
        IsPut(r) =>
            \A o \in Reqs \ {r} :
                MadeEntry(o) => req'[r].currentBlock >= req[o].currentBlock
    ]_vars

\* C27 (amended): the cache is last-writer-wins by completion time: a put
\* stores the putting request's own pools stamped with the time of the put,
\* whatever entry the cache holds and whatever head its scan read, so from
\* one put to the next the timestamp of the entry never decreases (the head
\* read by the scan that produced it may).
C27_PutsInCompletionOrder ==
    [][\A r \in Reqs :
        IsPut(r) =>
            /\ cache' = Some([data |-> Val(req'[r].resp).pools, timestamp |-> now])
            /\ Val(req'[r].resp).lastUpdated = Some(now)
            /\ ~IsNull(cache) => Val(cache').timestamp >= Val(cache).timestamp
    ]_vars

\* request 1 read head 250000, request 2 read head 250001 and put first an
\* entry with the event of the new block; request 1 put later and the cache
\* holds its entry, without that event
C27_Witness ==
    /\ Done(1) /\ Done(2)
    /\ req[1].currentBlock = 250000
    /\ req[2].currentBlock = 250001
    /\ Resp(2).lastUpdated = Some(0)
    /\ \E k \in DOMAIN Resp(2).pools : Resp(2).pools[k].pool = 3
    /\ Resp(1).cached = Some(FALSE)
    /\ cache = Some([data |-> Resp(1).pools, timestamp |-> 59999])
    /\ \A k \in DOMAIN Val(cache).data : Val(cache).data[k].pool # 3


\* C28: the cache entry changes only in the step in which a request that
\* gathered at least one event ends its enrichment; the step that serves a
\* request from the cache makes no external call and leaves the entry as it
\* is, and so do a step that ends a request in the no-data response and one
\* that ends it with status 500.
C28_CacheWrittenOnlyByCompletedScan ==
    [][/\ cache' # cache => \E r \in Reqs : IsPut(r)
       /\ \A r \in Reqs :
            /\ (req[r].pc # "done" /\ req'[r].pc = "done"
                  /\ Val(req'[r].resp).cached = Some(TRUE)) =>
                  /\ req[r].pc = "idle"
                  /\ req'[r].p = 0
                  /\ faults' = faults
                  /\ cache' = cache
            /\ (req[r].pc # "done" /\ req'[r].pc = "done"
                  /\ req'[r].logs = <<>>) =>
                  cache' = cache
            /\ (req[r].pc # "done" /\ req'[r].pc = "done"
                  /\ Val(req'[r].resp).status = 500) =>
                  cache' = cache
    ]_vars

\* the entry of the first request, 60001 ms old, still in the cache after
\* the second request scanned every provider in vain and answered no data
C28_Witness ==
    /\ Done(1) /\ Done(2)
    /\ now = 60001
    /\ req[2].logs = <<>>
    /\ Resp(2).pools = <<>>
    /\ Resp(2).cached # Some(TRUE)
    /\ Len(Resp(1).pools) = 2
    /\ cache = Some([data |-> Resp(1).pools, timestamp |-> 0])


\* C29: the data of the cache entry is never the empty list, and no
\* response served from the cache has an empty pool list.
C29_CacheNeverStoresEmptyList ==
    /\ ~IsNull(cache) => Val(cache).data # <<>>
    /\ \A r \in Reqs :
          (Done(r) /\ Resp(r).cached = Some(TRUE)) => Resp(r).pools # <<>>


RECURSIVE SumOver(_, _)
\* the sum of the balances of the accounts of S
SumOver(bal, S) ==
    IF S = {} THEN 0
    ELSE LET a == CHOOSE x \in S : TRUE
         IN bal[a] + SumOver(bal, S \ {a})

\* C30: after any sequence of transfer, approve and transferFrom calls the
\* balances of RedFlagToken sum to totalSupply, which is the initial supply;
\* a call that reverted left every balance and every allowance as it was;
\* and a transferFrom that succeeded lowered allowance[from][caller] by
\* exactly its value and left every other allowance as it was.
C30_SupplyConserved ==
    [][LET t == redFlagToken
           tn == redFlagToken'
           c == tn.last
       IN /\ tn.totalSupply = InitialSupply
          /\ SumOver(tn.balanceOf, Accounts) = tn.totalSupply
          /\ SumOver(t.balanceOf, Accounts) = t.totalSupply
          /\ ~c.ok =>
                /\ c.op \in {"transfer", "transferFrom"}
                /\ tn.balanceOf = t.balanceOf
                /\ tn.allowance = t.allowance
          /\ (c.op = "transferFrom" /\ c.ok) =>
                /\ tn.allowance[c.owner][c.spender] = t.allowance[c.owner][c.spender] - c.value
                /\ \A a, b \in Accounts :
                      <<a, b>> # <<c.owner, c.spender>> => tn.allowance[a][b] = t.allowance[a][b]
                /\ tn.balanceOf = MoveBalance(t.balanceOf, c.owner, c.to, c.value)
    ]_vars

\* alice, approved for the largest amount by the deployer, has moved 1 of
\* the deployer's tokens to bob in the third call made to the contract
C30_Witness ==
    /\ redFlagToken.last = Call("transferFrom", TRUE, "deployer", "alice", "bob", 1)
    /\ redFlagToken.allowance["deployer"]["alice"] = MaxUint - 1
    /\ redFlagToken.balanceOf["bob"] = 1
    /\ redFlagToken.balanceOf["deployer"] = InitialSupply - 1
    /\ redFlagToken.calls = 3

=============================================================================
